---- MODULE Spec2Model ----
(***************************************************************************)
(* A model of src/app.py, the accent analysis tool: one execution of the   *)
(* Streamlit script main() per submission, the downloader                  *)
(* download_video_with_yt_dlp it calls, and the audio extractor            *)
(* extract_audio.  Every action is one step of the code; the program       *)
(* counter pc names the line the script is at.                             *)
(*                                                                         *)
(* Texts whose content the code inspects (the download tool's standard     *)
(* error) are sequences of one-character strings, so that Python's         *)
(* substring test is modelled by what it does.                             *)
(***************************************************************************)
EXTENDS Integers, Sequences, FiniteSets, TLC

VARIABLES
    pc,               \* the line main() or the function it called is at
    runs,             \* script executions started so far in this process
    model_cache,      \* st.cache_resource's store for load_model()
    loads,            \* how many times EncoderClassifier.from_hparams ran
    submit_button,    \* st.form_submit_button's value in this execution
    video_url,        \* st.text_input's value in this execution
    tmpdir,           \* the TemporaryDirectory: "none", "exists", "deleted"
    video_file,       \* tmpdir/video.mp4 on disk
    audio_file,       \* tmpdir/output_audio.wav on disk
    proc,             \* what subprocess.run did
    exc,              \* the exception being handled inside a function
    video_path,       \* download_video_with_yt_dlp's return value
    max_duration_sec, \* extract_audio's parameter
    clip,             \* the VideoFileClip opened by extract_audio
    audio_to_write,   \* extract_audio's local
    extract_ok,       \* extract_audio's return value
    ui,               \* the st.info / st.success notifications, in order
    error,            \* the failure rendered with st.error
    result,           \* the metrics rendered at the end of a run
    raised,           \* the exception that left main(), if any
    calls,            \* external invocations made in this execution
    cls,              \* what classifier.classify_file gave classify_accent
    sess              \* the sessions calling load_model() side by side

vars == <<pc, runs, model_cache, loads, submit_button, video_url, tmpdir,
          video_file, audio_file, proc, exc, video_path, max_duration_sec,
          clip, audio_to_write, extract_ok, ui, error, result, raised,
          calls, cls, sess>>

----------------------------------------------------------------------------
(* Bounds of the model *)

MaxRuns == 2
MaxStderrLen == 3
MaxSourceDuration == 3
MaxDurationArg == 2
MaxSessions == 3

(* Constants of the program *)

ANALYSIS_DURATION_SECONDS == 30
DOWNLOAD_TIMEOUT_SECONDS == 120

----------------------------------------------------------------------------
(* Texts *)

RECURSIVE SeqsUpTo(_, _)
SeqsUpTo(S, n) ==
    IF n = 0 THEN {<<>>}
    ELSE LET shorter == SeqsUpTo(S, n - 1)
         IN  shorter \cup {Append(s, c) : s \in shorter, c \in S}

S403 == <<"4", "0", "3">>
SForbidden == <<"F", "o", "r", "b", "i", "d", "d", "e", "n">>

StderrAlphabet == {"4", "0", "3", " "}

SampleStderr ==
    { SForbidden,
      <<"f", "o", "r", "b", "i", "d", "d", "e", "n">>,
      <<"F", "o", "r", "b", "i", "d", "d", "e">>,
      <<"F", "o", "r", "b", "i", "d", " ", "d", "e", "n">>,
      <<"H", "T", "T", "P", " ", "4", "0", "3", ":", " ">> \o SForbidden,
      <<"H", "T", "T", "P", " ", "4", "0", "4">>,
      <<"4", "0", "0", "3">>,
      <<"P", "r", "i", "v", "a", "t", "e", " ", "v", "i", "d", "e", "o">> }

StderrTexts == SeqsUpTo(StderrAlphabet, MaxStderrLen) \cup SampleStderr

(* Python's `needle in hay` on str: a scan for the first position where    *)
(* the needle matches.                                                     *)
RECURSIVE FindFrom(_, _, _)
FindFrom(hay, needle, i) ==
    IF i + Len(needle) - 1 > Len(hay) THEN FALSE
    ELSE IF SubSeq(hay, i, i + Len(needle) - 1) = needle THEN TRUE
    ELSE FindFrom(hay, needle, i + 1)

Contains(hay, needle) == FindFrom(hay, needle, 1)

(* The mutant of the test of line 57: `and` for `or`. *)
IsForbiddenBoth(error_message) ==
    Contains(error_message, S403) /\ Contains(error_message, SForbidden)

(* Line 57: "403" in error_message or "Forbidden" in error_message *)
IsForbidden(error_message) ==
    Contains(error_message, S403) \/ Contains(error_message, SForbidden)

----------------------------------------------------------------------------
(* Values *)

NoVideo == [exists |-> FALSE, duration |-> 0, hasAudio |-> FALSE,
            readable |-> FALSE, transcodes |-> FALSE]

Durations ==
    (0 .. MaxSourceDuration)
        \cup {ANALYSIS_DURATION_SECONDS - 1, ANALYSIS_DURATION_SECONDS,
              ANALYSIS_DURATION_SECONDS + 1, 3 * ANALYSIS_DURATION_SECONDS}

(* What the download tool can leave at tmpdir/video.mp4 *)
VideoFiles ==
    [exists : {TRUE}, duration : Durations, hasAudio : BOOLEAN,
     readable : BOOLEAN, transcodes : BOOLEAN]

NoAudio == [exists |-> FALSE, duration |-> 0, fps |-> 0, nbytes |-> 0,
            channels |-> 0]

NoProc == [outcome |-> "none", elapsed |-> 0, stderr |-> <<>>,
           wrote |-> NoVideo]
NoExc == [type |-> "none", message |-> "none"]
NoClip == [open |-> FALSE, duration |-> 0, hasAudio |-> FALSE]
NoAudioToWrite == [present |-> FALSE, duration |-> 0]
NoError == [headline |-> "none", message |-> "none", hint |-> "none",
            hasDetail |-> FALSE, detail |-> <<>>]
NoResult == [shown |-> FALSE, accent |-> <<>>, confidence |-> 0]
NoCalls == [download |-> 0, transcode |-> 0, classify |-> 0]
NoCls == [outcome |-> "none", label |-> <<>>, prob |-> 0]
NoSess == [pcs |-> <<>>, lock |-> 0, handle |-> <<>>]

ToolRunTimes ==
    {1, DOWNLOAD_TIMEOUT_SECONDS - 1, DOWNLOAD_TIMEOUT_SECONDS,
     DOWNLOAD_TIMEOUT_SECONDS + 1, 5 * DOWNLOAD_TIMEOUT_SECONDS}

Urls == {"", "https://www.loom.com/share/x"}

MsgNoOutput == "yt-dlp ran without error but did not produce an output file."
MsgTimeout == "Command '['yt-dlp', ...]' timed out after 120 seconds"
MsgNoTool == "[Errno 2] No such file or directory: 'yt-dlp'"
MsgNameError == "name 'extract__audio' is not defined"
MsgNoAudioTrack == "The video file does not contain an audio track."
MsgCannotRead == "MoviePy error: failed to read the duration of file video.mp4"
MsgWriteFailed == "MoviePy error: FFMPEG encountered an error when writing file"
MsgTruncated == "For efficiency, only the first seconds of audio will be analyzed."

(* The spec's taxonomy read off what the code renders: the tag of a        *)
(* failure is decided by the handler that rendered it and the branch it    *)
(* took there, which is all the code records about the cause.              *)
Tag(e) ==
    CASE e.headline = "Video Download Failed." /\ e.hint = "service block"
           -> "DownloadForbidden"
      [] e.headline = "Video Download Failed." /\ e.hint # "service block"
           -> "DownloadToolError"
      [] e.headline = "An unexpected error occurred during download"
           -> "UnexpectedDownloadFailure"
      [] e.headline = "Audio Extraction Failed"
           -> "ExtractionFailure"
      [] OTHER -> "none"

----------------------------------------------------------------------------
(* The state a script execution starts from *)

FreshRun(submit, url) ==
    /\ pc' = "load_model"
    /\ submit_button' = submit
    /\ video_url' = url
    /\ tmpdir' = "none"
    /\ video_file' = NoVideo
    /\ audio_file' = NoAudio
    /\ proc' = NoProc
    /\ exc' = NoExc
    /\ video_path' = "none"
    /\ max_duration_sec' = 0
    /\ clip' = NoClip
    /\ audio_to_write' = NoAudioToWrite
    /\ extract_ok' = "unset"
    /\ ui' = <<>>
    /\ error' = NoError
    /\ result' = NoResult
    /\ raised' = NoExc
    /\ calls' = NoCalls
    /\ cls' = NoCls

Init ==
    /\ pc = "load_model"
    /\ runs = 1
    /\ model_cache = "empty"
    /\ loads = 0
    /\ submit_button \in BOOLEAN
    /\ video_url \in Urls
    /\ tmpdir = "none"
    /\ video_file = NoVideo
    /\ audio_file = NoAudio
    /\ proc = NoProc
    /\ exc = NoExc
    /\ video_path = "none"
    /\ max_duration_sec = 0
    /\ clip = NoClip
    /\ audio_to_write = NoAudioToWrite
    /\ extract_ok = "unset"
    /\ ui = <<>>
    /\ error = NoError
    /\ result = NoResult
    /\ raised = NoExc
    /\ calls = NoCalls
    /\ cls = NoCls
    /\ sess = NoSess

----------------------------------------------------------------------------
(* main(), lines 113-144 *)

(* The mutant of line 16: load_model() without its decorator. *)
CacheHitNever(cache) == FALSE

(* Line 16, @st.cache_resource: a call finds the value of an earlier call *)
CacheHit(cache) == cache = "loaded"

(* Line 119: classifier = load_model(), cached by st.cache_resource *)
Main_LoadModel ==
    /\ pc = "load_model"
    /\ model_cache' = "loaded"
    /\ loads' = IF CacheHit(model_cache) THEN loads ELSE loads + 1
    /\ pc' = "form"
    /\ UNCHANGED <<calls, cls, sess, runs, submit_button, video_url, tmpdir, video_file,
                   audio_file, proc, exc, video_path, max_duration_sec, clip,
                   audio_to_write, extract_ok, ui, error, result, raised>>

(* The mutant of the test of line 125: the URL is not looked at. *)
SubmittedWhateverUrl(submit, url) == submit

(* Line 125: submit_button and video_url (a str is true when not empty) *)
Submitted(submit, url) == submit /\ url # ""

(* The mutant of line 127: a TemporaryDirectory made without `with` and    *)
(* not kept, which is removed as soon as it is collected.                  *)
Main_EnterWorkspaceNotKept ==
    /\ pc = "form"
    /\ Submitted(submit_button, video_url)
    /\ tmpdir' = "deleted"
    /\ pc' = "step1"
    /\ UNCHANGED <<calls, cls, sess, runs, model_cache, loads, submit_button,
                   video_url, video_file, audio_file, proc, exc, video_path,
                   max_duration_sec, clip, audio_to_write, extract_ok, ui,
                   error, result, raised>>

(* Line 125, taken: the form was submitted with a non-empty URL;           *)
(* line 127: the TemporaryDirectory is created.                            *)
Main_EnterWorkspace ==
    /\ pc = "form"
    /\ Submitted(submit_button, video_url)
    /\ tmpdir' = "exists"
    /\ pc' = "step1"
    /\ UNCHANGED <<calls, cls, sess, runs, model_cache, loads, submit_button, video_url,
                   video_file, audio_file, proc, exc, video_path,
                   max_duration_sec, clip, audio_to_write, extract_ok, ui,
                   error, result, raised>>

(* Line 125, not taken: the script ends without a run *)
Main_NoSubmission ==
    /\ pc = "form"
    /\ ~Submitted(submit_button, video_url)
    /\ pc' = "returned"
    /\ UNCHANGED <<calls, cls, sess, runs, model_cache, loads, submit_button, video_url, tmpdir,
                   video_file, audio_file, proc, exc, video_path,
                   max_duration_sec, clip, audio_to_write, extract_ok, ui,
                   error, result, raised>>

(* Lines 128-129: the first notification, then the call of the downloader *)
Main_Step1 ==
    /\ pc = "step1"
    /\ ui' = Append(ui, "Step 1: Attempting to download video...")
    /\ pc' = "dl_subprocess"
    /\ UNCHANGED <<calls, cls, sess, runs, model_cache, loads, submit_button, video_url, tmpdir,
                   video_file, audio_file, proc, exc, video_path,
                   max_duration_sec, clip, audio_to_write, extract_ok, error,
                   result, raised>>

----------------------------------------------------------------------------
(* download_video_with_yt_dlp(url, temp_dir), lines 27-69 *)

(* Lines 45-48, subprocess.run(..., check=True, timeout=120): whether the  *)
(* tool is still running when the timeout expires.  A tool that ends at    *)
(* the very instant of the timeout races with it: either may win.          *)
TimeoutExpires(elapsed) == elapsed >= DOWNLOAD_TIMEOUT_SECONDS
ToolCompletes(elapsed) == elapsed <= DOWNLOAD_TIMEOUT_SECONDS

(* The tool exits 0 in time, having written tmpdir/video.mp4 or not *)
Download_ToolExitsZero ==
    /\ pc = "dl_subprocess"
    /\ \E t \in ToolRunTimes, f \in VideoFiles \cup {NoVideo} :
          /\ ToolCompletes(t)
          /\ proc' = [outcome |-> "exit0", elapsed |-> t, stderr |-> <<>>,
                    wrote |-> f]
          /\ video_file' = f
    /\ pc' = "dl_check"
    /\ calls' = [calls EXCEPT !.download = @ + 1]
    /\ UNCHANGED <<cls, sess, runs, model_cache, loads, submit_button, video_url, tmpdir,
                   audio_file, exc, video_path, max_duration_sec, clip,
                   audio_to_write, extract_ok, ui, error, result, raised>>

(* The tool exits nonzero in time: check=True raises CalledProcessError,   *)
(* which carries the captured standard error.                              *)
Download_ToolExitsNonzero ==
    /\ pc = "dl_subprocess"
    /\ \E t \in ToolRunTimes, err \in StderrTexts :
          /\ ToolCompletes(t)
          /\ proc' = [outcome |-> "nonzero", elapsed |-> t, stderr |-> err,
                    wrote |-> NoVideo]
    /\ exc' = [type |-> "CalledProcessError", message |-> "non-zero exit status"]
    /\ pc' = "dl_except"
    /\ calls' = [calls EXCEPT !.download = @ + 1]
    /\ UNCHANGED <<cls, sess, runs, model_cache, loads, submit_button, video_url, tmpdir,
                   video_file, audio_file, video_path, max_duration_sec, clip,
                   audio_to_write, extract_ok, ui, error, result, raised>>

(* The tool is still running after 120 seconds: it is killed and           *)
(* subprocess.TimeoutExpired is raised.                                    *)
Download_ToolTimesOut ==
    /\ pc = "dl_subprocess"
    /\ \E t \in ToolRunTimes :
          /\ TimeoutExpires(t)
          /\ proc' = [outcome |-> "timeout", elapsed |-> t, stderr |-> <<>>,
                    wrote |-> NoVideo]
    /\ exc' = [type |-> "TimeoutExpired", message |-> MsgTimeout]
    /\ pc' = "dl_except"
    /\ calls' = [calls EXCEPT !.download = @ + 1]
    /\ UNCHANGED <<cls, sess, runs, model_cache, loads, submit_button, video_url, tmpdir,
                   video_file, audio_file, video_path, max_duration_sec, clip,
                   audio_to_write, extract_ok, ui, error, result, raised>>

(* The tool cannot be started at all (it is not installed): OSError *)
Download_ToolCannotStart ==
    /\ pc = "dl_subprocess"
    /\ proc' = [outcome |-> "not started", elapsed |-> 0, stderr |-> <<>>,
               wrote |-> NoVideo]
    /\ exc' = [type |-> "FileNotFoundError", message |-> MsgNoTool]
    /\ pc' = "dl_except"
    /\ calls' = [calls EXCEPT !.download = @ + 1]
    /\ UNCHANGED <<cls, sess, runs, model_cache, loads, submit_button, video_url, tmpdir,
                   video_file, audio_file, video_path, max_duration_sec, clip,
                   audio_to_write, extract_ok, ui, error, result, raised>>

(* The mutant of the test of line 50: the file is not looked for. *)
OutputMissingNeverChecked(f) == FALSE

(* Line 50: not os.path.exists(filepath) *)
OutputMissing(f) == ~f.exists

(* Lines 50-51: no file at tmpdir/video.mp4, an Exception is raised *)
Download_OutputMissing ==
    /\ pc = "dl_check"
    /\ OutputMissing(video_file)
    /\ exc' = [type |-> "Exception", message |-> MsgNoOutput]
    /\ pc' = "dl_except"
    /\ UNCHANGED <<calls, cls, sess, runs, model_cache, loads, submit_button, video_url, tmpdir,
                   video_file, audio_file, proc, video_path, max_duration_sec,
                   clip, audio_to_write, extract_ok, ui, error, result,
                   raised>>

(* Lines 50-52: the file is there, its path is returned *)
Download_ReturnPath ==
    /\ pc = "dl_check"
    /\ ~OutputMissing(video_file)
    /\ video_path' = "video.mp4"
    /\ pc' = "after_download"
    /\ UNCHANGED <<calls, cls, sess, runs, model_cache, loads, submit_button, video_url, tmpdir,
                   video_file, audio_file, proc, exc, max_duration_sec, clip,
                   audio_to_write, extract_ok, ui, error, result, raised>>

(* The mutant of the clause of line 54: `except subprocess.SubprocessError`, *)
(* which TimeoutExpired is a subclass of too.                                *)
CaughtAsAnySubprocessError(type) ==
    type \in {"CalledProcessError", "TimeoutExpired"}

(* Line 54: which exceptions `except subprocess.CalledProcessError` takes *)
CaughtAsCalledProcessError(type) == type = "CalledProcessError"

(* Lines 54-66: the failure is rendered with the hint of the branch taken  *)
(* at line 57 and the tool's standard error (e.stderr) in the expander.    *)
Download_OnCalledProcessError ==
    /\ pc = "dl_except"
    /\ CaughtAsCalledProcessError(exc.type)
    /\ error' = [headline |-> "Video Download Failed.",
                 message |-> "none",
                 hint |-> IF IsForbidden(proc.stderr)
                          THEN "service block" ELSE "private or unsupported",
                 hasDetail |-> TRUE,
                 detail |-> proc.stderr]
    /\ exc' = NoExc
    /\ video_path' = "none"
    /\ pc' = "after_download"
    /\ UNCHANGED <<calls, cls, sess, runs, model_cache, loads, submit_button, video_url, tmpdir,
                   video_file, audio_file, proc, max_duration_sec, clip,
                   audio_to_write, extract_ok, ui, result, raised>>

(* The mutant of lines 67-69: the exception is rendered and raised again. *)
Download_OnExceptionRaisesAgain ==
    /\ pc = "dl_except"
    /\ ~CaughtAsCalledProcessError(exc.type)
    /\ error' = [headline |-> "An unexpected error occurred during download",
                 message |-> exc.message,
                 hint |-> "none",
                 hasDetail |-> FALSE,
                 detail |-> <<>>]
    /\ raised' = exc
    /\ pc' = "exit_workspace"
    /\ UNCHANGED <<calls, cls, sess, runs, model_cache, loads, submit_button,
                   video_url, tmpdir, video_file, audio_file, proc, exc,
                   video_path, max_duration_sec, clip, audio_to_write,
                   extract_ok, ui, result>>

(* Lines 67-69: every other exception is rendered as an unexpected error   *)
(* with str(e).                                                            *)
Download_OnException ==
    /\ pc = "dl_except"
    /\ ~CaughtAsCalledProcessError(exc.type)
    /\ error' = [headline |-> "An unexpected error occurred during download",
                 message |-> exc.message,
                 hint |-> "none",
                 hasDetail |-> FALSE,
                 detail |-> <<>>]
    /\ exc' = NoExc
    /\ video_path' = "none"
    /\ pc' = "after_download"
    /\ UNCHANGED <<calls, cls, sess, runs, model_cache, loads, submit_button, video_url, tmpdir,
                   video_file, audio_file, proc, max_duration_sec, clip,
                   audio_to_write, extract_ok, ui, result, raised>>

----------------------------------------------------------------------------
(* main(), continued *)

(* The mutant of the test of line 131: the run goes on whatever came back. *)
DownloadSucceededAlways(path) == TRUE

(* Line 131: if video_path *)
DownloadSucceeded(path) == path # "none"

(* Lines 131-134: the download gave a path; two notifications *)
Main_DownloadSucceeded ==
    /\ pc = "after_download"
    /\ DownloadSucceeded(video_path)
    /\ ui' = ui \o <<"Download complete!", "Step 2: Extracting audio...">>
    /\ pc' = "call_extract"
    /\ UNCHANGED <<calls, cls, sess, runs, model_cache, loads, submit_button, video_url, tmpdir,
                   video_file, audio_file, proc, exc, video_path,
                   max_duration_sec, clip, audio_to_write, extract_ok, error,
                   result, raised>>

(* The mutant of line 131, not taken: the download is tried again. *)
Main_DownloadFailedRetries ==
    /\ pc = "after_download"
    /\ ~DownloadSucceeded(video_path)
    /\ pc' = "dl_subprocess"
    /\ UNCHANGED <<calls, cls, sess, runs, model_cache, loads, submit_button,
                   video_url, tmpdir, video_file, audio_file, proc, exc,
                   video_path, max_duration_sec, clip, audio_to_write,
                   extract_ok, ui, error, result, raised>>

(* Line 131, not taken: the download gave None; the with block ends *)
Main_DownloadFailed ==
    /\ pc = "after_download"
    /\ ~DownloadSucceeded(video_path)
    /\ pc' = "exit_workspace"
    /\ UNCHANGED <<calls, cls, sess, runs, model_cache, loads, submit_button, video_url, tmpdir,
                   video_file, audio_file, proc, exc, video_path,
                   max_duration_sec, clip, audio_to_write, extract_ok, ui,
                   error, result, raised>>

(* Line 135 calls extract__audio, a name the module does not define (the   *)
(* function of line 72 is extract_audio): evaluating the name raises       *)
(* NameError, nothing is called, and the exception leaves the with block.  *)
Main_CallExtract ==
    /\ pc = "call_extract"
    /\ raised' = [type |-> "NameError", message |-> MsgNameError]
    /\ pc' = "exit_workspace"
    /\ UNCHANGED <<calls, cls, sess, runs, model_cache, loads, submit_button, video_url, tmpdir,
                   video_file, audio_file, proc, exc, video_path,
                   max_duration_sec, clip, audio_to_write, extract_ok, ui,
                   error, result>>

(* The mutant of the exit of line 127: a directory removed at the end of   *)
(* the block only, and so kept when an exception leaves it.                *)
TemporaryDirectoryExitNoFinally(pending) ==
    IF pending.type = "none" THEN "deleted" ELSE "exists"

(* Line 127: TemporaryDirectory.__exit__ removes the directory whether or  *)
(* not an exception is leaving the block.                                  *)
TemporaryDirectoryExit(pending) == "deleted"

(* Line 127, the end of the with block: the directory and what it holds    *)
(* are removed, then main() returns or the exception goes on.              *)
Main_ExitWorkspace ==
    /\ pc = "exit_workspace"
    /\ tmpdir' = TemporaryDirectoryExit(raised)
    /\ video_file' = IF tmpdir' = "deleted" THEN NoVideo ELSE video_file
    /\ audio_file' = IF tmpdir' = "deleted" THEN NoAudio ELSE audio_file
    /\ pc' = "returned"
    /\ UNCHANGED <<calls, cls, sess, runs, model_cache, loads, submit_button, video_url, proc,
                   exc, video_path, max_duration_sec, clip, audio_to_write,
                   extract_ok, ui, error, result, raised>>

(* Streamlit runs the script again on the next interaction *)
Rerun ==
    /\ pc = "returned"
    /\ runs < MaxRuns
    /\ runs' = runs + 1
    /\ \E submit \in BOOLEAN, url \in Urls : FreshRun(submit, url)
    /\ UNCHANGED <<model_cache, loads, sess>>

Next ==
    \/ Main_LoadModel
    \/ Main_EnterWorkspace
    \/ Main_NoSubmission
    \/ Main_Step1
    \/ Download_ToolExitsZero
    \/ Download_ToolExitsNonzero
    \/ Download_ToolTimesOut
    \/ Download_ToolCannotStart
    \/ Download_OutputMissing
    \/ Download_ReturnPath
    \/ Download_OnCalledProcessError
    \/ Download_OnException
    \/ Main_DownloadSucceeded
    \/ Main_DownloadFailed
    \/ Main_CallExtract
    \/ Main_ExitWorkspace
    \/ Rerun

Spec == Init /\ [][Next]_vars

----------------------------------------------------------------------------
(* extract_audio(video_path, audio_path, max_duration_sec), lines 72-102.  *)
(* main() never reaches it (line 135), so it is exercised as a unit: it is *)
(* called on a file at video_path, in a directory that exists.             *)

MaxDurationArgs == (1 .. MaxDurationArg) \cup {ANALYSIS_DURATION_SECONDS}

InitExtract ==
    /\ pc = "ex_open"
    /\ runs = 1
    /\ model_cache = "loaded"
    /\ loads = 1
    /\ submit_button = TRUE
    /\ video_url \in Urls \ {""}
    /\ tmpdir = "exists"
    /\ video_file \in VideoFiles
    /\ audio_file = NoAudio
    /\ proc = NoProc
    /\ exc = NoExc
    /\ video_path = "video.mp4"
    /\ max_duration_sec \in MaxDurationArgs
    /\ clip = NoClip
    /\ audio_to_write = NoAudioToWrite
    /\ extract_ok = "unset"
    /\ ui = <<>>
    /\ error = NoError
    /\ result = NoResult
    /\ raised = NoExc
    /\ calls = NoCalls
    /\ cls = NoCls
    /\ sess = NoSess

(* Line 79: VideoFileClip(video_path) reads the container, its duration    *)
(* and whether it holds an audio stream (clip.audio is None without one).  *)
Extract_OpenClip ==
    /\ pc = "ex_open"
    /\ video_file.readable
    /\ clip' = [open |-> TRUE, duration |-> video_file.duration,
                hasAudio |-> video_file.hasAudio]
    /\ pc' = "ex_select"
    /\ UNCHANGED <<calls, cls, sess, runs, model_cache, loads, submit_button, video_url, tmpdir,
                   video_file, audio_file, proc, exc, video_path,
                   max_duration_sec, audio_to_write, extract_ok, ui, error,
                   result, raised>>

(* The mutant of the failure at line 79: the duration is taken as          *)
(* unbounded and the whole track goes on to be written.                    *)
Extract_OpenFailsFallsBack ==
    /\ pc = "ex_open"
    /\ ~video_file.readable
    /\ clip' = [open |-> TRUE, duration |-> video_file.duration,
                hasAudio |-> video_file.hasAudio]
    /\ audio_to_write' = [present |-> video_file.hasAudio,
                          duration |-> video_file.duration]
    /\ pc' = "ex_check"
    /\ UNCHANGED <<calls, cls, sess, runs, model_cache, loads, submit_button, video_url, tmpdir,
                   video_file, audio_file, proc, exc, video_path,
                   max_duration_sec, extract_ok, ui, error, result, raised>>

(* Line 79: the container cannot be read or its duration cannot be found:  *)
(* VideoFileClip raises, inside the try of line 76.                        *)
Extract_OpenFails ==
    /\ pc = "ex_open"
    /\ ~video_file.readable
    /\ exc' = [type |-> "OSError", message |-> MsgCannotRead]
    /\ pc' = "ex_except"
    /\ UNCHANGED <<calls, cls, sess, runs, model_cache, loads, submit_button, video_url, tmpdir,
                   video_file, audio_file, proc, video_path, max_duration_sec,
                   clip, audio_to_write, extract_ok, ui, error, result,
                   raised>>

(* The mutant of the test of line 81: `>=` for `>`. *)
ExceedsMaxOrEqual(duration, max) == duration >= max

(* Line 81: clip.duration > max_duration_sec *)
ExceedsMax(duration, max) == duration > max

(* The mutant of line 84: the subclip is cut at the clip's own end. *)
SubclipWholeClip(c, t_start, t_end) ==
    [open |-> TRUE, duration |-> c.duration - t_start, hasAudio |-> c.hasAudio]

(* Line 84: clip.subclip(t_start, t_end), whose audio is the audio's       *)
(* subclip over the same interval (None when the clip has none).           *)
Subclip(c, t_start, t_end) ==
    [open |-> TRUE, duration |-> t_end - t_start, hasAudio |-> c.hasAudio]

(* Lines 81-86: the clip is longer than the maximum; the user is told and  *)
(* the audio of the first max_duration_sec seconds is taken.               *)
Extract_Truncate ==
    /\ pc = "ex_select"
    /\ ExceedsMax(clip.duration, max_duration_sec)
    /\ ui' = Append(ui, MsgTruncated)
    /\ LET sub_clip == Subclip(clip, 0, max_duration_sec)
       IN  audio_to_write' = [present |-> sub_clip.hasAudio,
                              duration |-> sub_clip.duration]
    /\ pc' = "ex_check"
    /\ UNCHANGED <<calls, cls, sess, runs, model_cache, loads, submit_button, video_url, tmpdir,
                   video_file, audio_file, proc, exc, video_path,
                   max_duration_sec, clip, extract_ok, error, result, raised>>

(* Lines 87-89: the clip is short; its whole audio is taken *)
Extract_FullAudio ==
    /\ pc = "ex_select"
    /\ ~ExceedsMax(clip.duration, max_duration_sec)
    /\ audio_to_write' = [present |-> clip.hasAudio,
                          duration |-> clip.duration]
    /\ pc' = "ex_check"
    /\ UNCHANGED <<calls, cls, sess, runs, model_cache, loads, submit_button, video_url, tmpdir,
                   video_file, audio_file, proc, exc, video_path,
                   max_duration_sec, clip, extract_ok, ui, error, result,
                   raised>>

(* Lines 91-92: audio_to_write is None; an Exception is raised and the     *)
(* with of line 79 closes the clip.                                        *)
Extract_NoAudioTrack ==
    /\ pc = "ex_check"
    /\ ~audio_to_write.present
    /\ exc' = [type |-> "Exception", message |-> MsgNoAudioTrack]
    /\ clip' = [clip EXCEPT !.open = FALSE]
    /\ pc' = "ex_except"
    /\ UNCHANGED <<calls, cls, sess, runs, model_cache, loads, submit_button, video_url, tmpdir,
                   video_file, audio_file, proc, video_path, max_duration_sec,
                   audio_to_write, extract_ok, ui, error, result, raised>>

(* Lines 95-98: write_audiofile(audio_path, fps=16000, nbytes=2,           *)
(* codec='pcm_s16le', ffmpeg_params=["-ac", "1"]) writes the whole of      *)
(* audio_to_write.                                                         *)
Extract_WriteAudio ==
    /\ pc = "ex_check"
    /\ audio_to_write.present
    /\ video_file.transcodes
    /\ audio_file' = [exists |-> TRUE, duration |-> audio_to_write.duration,
                      fps |-> 16000, nbytes |-> 2, channels |-> 1]
    /\ pc' = "ex_return"
    /\ calls' = [calls EXCEPT !.transcode = @ + 1]
    /\ UNCHANGED <<cls, sess, runs, model_cache, loads, submit_button, video_url, tmpdir,
                   video_file, proc, exc, video_path, max_duration_sec, clip,
                   audio_to_write, extract_ok, ui, error, result, raised>>

(* Lines 95-98: ffmpeg fails while writing; write_audiofile raises, and    *)
(* the file it had begun may or may not be left behind.                    *)
Extract_WriteFails ==
    /\ pc = "ex_check"
    /\ audio_to_write.present
    /\ ~video_file.transcodes
    /\ audio_file' \in {NoAudio,
                        [exists |-> TRUE, duration |-> 0, fps |-> 16000,
                         nbytes |-> 2, channels |-> 1]}
    /\ exc' = [type |-> "OSError", message |-> MsgWriteFailed]
    /\ clip' = [clip EXCEPT !.open = FALSE]
    /\ pc' = "ex_except"
    /\ calls' = [calls EXCEPT !.transcode = @ + 1]
    /\ UNCHANGED <<cls, sess, runs, model_cache, loads, submit_button, video_url, tmpdir,
                   video_file, proc, video_path, max_duration_sec,
                   audio_to_write, extract_ok, ui, error, result, raised>>

(* Line 99: the with block closes the clip; True is returned *)
Extract_ReturnTrue ==
    /\ pc = "ex_return"
    /\ clip' = [clip EXCEPT !.open = FALSE]
    /\ extract_ok' = "True"
    /\ pc' = "ex_done"
    /\ UNCHANGED <<calls, cls, sess, runs, model_cache, loads, submit_button, video_url, tmpdir,
                   video_file, audio_file, proc, exc, video_path,
                   max_duration_sec, audio_to_write, ui, error, result,
                   raised>>

(* Lines 100-102: every exception is rendered with str(e); False is        *)
(* returned.                                                               *)
Extract_OnException ==
    /\ pc = "ex_except"
    /\ error' = [headline |-> "Audio Extraction Failed",
                 message |-> exc.message,
                 hint |-> "none",
                 hasDetail |-> FALSE,
                 detail |-> <<>>]
    /\ exc' = NoExc
    /\ extract_ok' = "False"
    /\ pc' = "ex_done"
    /\ UNCHANGED <<calls, cls, sess, runs, model_cache, loads, submit_button, video_url, tmpdir,
                   video_file, audio_file, proc, video_path, max_duration_sec,
                   clip, audio_to_write, ui, result, raised>>

NextExtract ==
    \/ Extract_OpenClip
    \/ Extract_OpenFails
    \/ Extract_Truncate
    \/ Extract_FullAudio
    \/ Extract_NoAudioTrack
    \/ Extract_WriteAudio
    \/ Extract_WriteFails
    \/ Extract_ReturnTrue
    \/ Extract_OnException

SpecExtract == InitExtract /\ [][NextExtract]_vars

----------------------------------------------------------------------------
(* classify_accent(audio_path, classifier), lines 104-110, and the lines   *)
(* of main() that call it and render what it returns, lines 136-144.       *)
(* main() never reaches them (line 135), so they are exercised as a unit,  *)
(* from the state in which the test of line 135 has come out true: the     *)
(* video was downloaded and its audio written to output_audio.wav.         *)

Labels ==
    { <<"u", "s">>,
      <<"e", "n", "g", "l", "a", "n", "d">>,
      <<"I", "n", "d", "i", "a", "n">> }

(* out_prob.max().item(), in units of 0.00001; no value falls half way     *)
(* between two hundredths of a percent.                                    *)
Probs == {0, 1, 33333, 51234, 99996, 100000}

Upper(c) ==
    CASE c = "u" -> "U" [] c = "e" -> "E" [] c = "i" -> "I" [] OTHER -> c

Lower(c) ==
    CASE c = "U" -> "u" [] c = "E" -> "e" [] c = "I" -> "i" [] OTHER -> c

(* Line 143: accent.capitalize() *)
Capitalize(label) ==
    [i \in 1 .. Len(label) |->
        IF i = 1 THEN Upper(label[i]) ELSE Lower(label[i])]

(* Line 109: round(p * 100, 2), in hundredths of a percent *)
Confidence(prob) == (prob + 5) \div 10

InitClassify ==
    /\ pc = "step3"
    /\ runs = 1
    /\ model_cache = "loaded"
    /\ loads = 1
    /\ submit_button = TRUE
    /\ video_url \in Urls \ {""}
    /\ tmpdir = "exists"
    /\ video_file \in {f \in VideoFiles :
                          f.readable /\ f.hasAudio /\ f.transcodes}
    /\ max_duration_sec = ANALYSIS_DURATION_SECONDS
    /\ audio_file = [exists |-> TRUE,
                     duration |-> IF ExceedsMax(video_file.duration,
                                                max_duration_sec)
                                  THEN max_duration_sec
                                  ELSE video_file.duration,
                     fps |-> 16000, nbytes |-> 2, channels |-> 1]
    /\ \E t \in ToolRunTimes :
          /\ ToolCompletes(t)
          /\ proc = [outcome |-> "exit0", elapsed |-> t, stderr |-> <<>>,
                     wrote |-> video_file]
    /\ exc = NoExc
    /\ video_path = "video.mp4"
    /\ clip = NoClip
    /\ audio_to_write = NoAudioToWrite
    /\ extract_ok = "True"
    /\ ui = <<"Step 1: Attempting to download video...",
              "Download complete!", "Step 2: Extracting audio...">>
            \o (IF ExceedsMax(video_file.duration, max_duration_sec)
                THEN <<MsgTruncated>> ELSE <<>>)
    /\ error = NoError
    /\ result = NoResult
    /\ raised = NoExc
    /\ calls = [download |-> 1, transcode |-> 1, classify |-> 0]
    /\ cls = NoCls
    /\ sess = NoSess

(* Lines 136-137: the third notification, then the call of classify_accent *)
Main_Step3 ==
    /\ pc = "step3"
    /\ ui' = Append(ui, "Step 3: Analyzing accent...")
    /\ pc' = "cl_classify"
    /\ UNCHANGED <<calls, cls, sess, runs, model_cache, loads, submit_button,
                   video_url, tmpdir, video_file, audio_file, proc, exc,
                   video_path, max_duration_sec, clip, audio_to_write,
                   extract_ok, error, result, raised>>

(* Lines 108-110: classifier.classify_file returns; the label and the      *)
(* greatest probability are handed back.                                   *)
Classify_Returns ==
    /\ pc = "cl_classify"
    /\ \E label \in Labels, p \in Probs :
          cls' = [outcome |-> "returned", label |-> label, prob |-> p]
    /\ calls' = [calls EXCEPT !.classify = @ + 1]
    /\ pc' = "render"
    /\ UNCHANGED <<sess, runs, model_cache, loads, submit_button, video_url,
                   tmpdir, video_file, audio_file, proc, exc, video_path,
                   max_duration_sec, clip, audio_to_write, extract_ok, ui,
                   error, result, raised>>

(* Line 108: classifier.classify_file raises.  Neither classify_accent nor *)
(* lines 136-144 have a try around the call: the exception leaves the with *)
(* block of line 127 and then main().                                      *)
Classify_Raises ==
    /\ pc = "cl_classify"
    /\ cls' = [outcome |-> "raised", label |-> <<>>, prob |-> 0]
    /\ calls' = [calls EXCEPT !.classify = @ + 1]
    /\ raised' = [type |-> "RuntimeError",
                  message |-> "Error opening output_audio.wav"]
    /\ pc' = "exit_workspace"
    /\ UNCHANGED <<sess, runs, model_cache, loads, submit_button, video_url,
                   tmpdir, video_file, audio_file, proc, exc, video_path,
                   max_duration_sec, clip, audio_to_write, extract_ok, ui,
                   error, result>>

(* Lines 139-144: the result is rendered: the label capitalized, the       *)
(* confidence as a percentage.                                             *)
Main_RenderResult ==
    /\ pc = "render"
    /\ ui' = Append(ui, "Analysis Complete!")
    /\ result' = [shown |-> TRUE, accent |-> Capitalize(cls.label),
                  confidence |-> Confidence(cls.prob)]
    /\ pc' = "exit_workspace"
    /\ UNCHANGED <<calls, cls, sess, runs, model_cache, loads, submit_button,
                   video_url, tmpdir, video_file, audio_file, proc, exc,
                   video_path, max_duration_sec, clip, audio_to_write,
                   extract_ok, error, raised>>

NextClassify ==
    \/ Main_Step3
    \/ Classify_Returns
    \/ Classify_Raises
    \/ Main_RenderResult
    \/ Main_ExitWorkspace

SpecClassify == InitClassify /\ [][NextClassify]_vars

----------------------------------------------------------------------------
(* load_model(), lines 16-24, called by sessions running side by side.     *)
(* Streamlit runs each session's script in a thread of its own, and        *)
(* st.cache_resource keeps one store for the whole process: a call reads   *)
(* the store; on a miss it takes the store's lock, reads again, and only   *)
(* then runs the function and writes its value.  sess.handle[i] is the     *)
(* instance session i was given: the number of the construction that made  *)
(* it.                                                                     *)

Sessions == 1 .. MaxSessions

InitLoad ==
    /\ pc = "sessions"
    /\ runs = 1
    /\ model_cache = "empty"
    /\ loads = 0
    /\ submit_button = FALSE
    /\ video_url = ""
    /\ tmpdir = "none"
    /\ video_file = NoVideo
    /\ audio_file = NoAudio
    /\ proc = NoProc
    /\ exc = NoExc
    /\ video_path = "none"
    /\ max_duration_sec = 0
    /\ clip = NoClip
    /\ audio_to_write = NoAudioToWrite
    /\ extract_ok = "unset"
    /\ ui = <<>>
    /\ error = NoError
    /\ result = NoResult
    /\ raised = NoExc
    /\ calls = NoCalls
    /\ cls = NoCls
    /\ sess = [pcs |-> [i \in Sessions |-> "idle"],
               lock |-> 0,
               handle |-> [i \in Sessions |-> 0]]

LoadFrame ==
    UNCHANGED <<pc, runs, submit_button, video_url, tmpdir, video_file,
                audio_file, proc, exc, video_path, max_duration_sec, clip,
                audio_to_write, extract_ok, ui, error, result, raised, calls,
                cls>>

(* A session's script starts, or starts again after an interaction, and    *)
(* reaches line 119.                                                       *)
Load_Call(i) ==
    /\ sess.pcs[i] \in {"idle", "has_model"}
    /\ sess' = [sess EXCEPT !.pcs[i] = "lookup", !.handle[i] = 0]
    /\ UNCHANGED <<model_cache, loads>>
    /\ LoadFrame

(* The store holds the value: it is returned *)
Load_Hit(i) ==
    /\ sess.pcs[i] = "lookup"
    /\ CacheHit(model_cache)
    /\ sess' = [sess EXCEPT !.pcs[i] = "has_model", !.handle[i] = loads]
    /\ UNCHANGED <<model_cache, loads>>
    /\ LoadFrame

(* The store does not hold the value: the session goes for the lock *)
Load_Miss(i) ==
    /\ sess.pcs[i] = "lookup"
    /\ ~CacheHit(model_cache)
    /\ sess' = [sess EXCEPT !.pcs[i] = "wait_lock"]
    /\ UNCHANGED <<model_cache, loads>>
    /\ LoadFrame

Load_AcquireLock(i) ==
    /\ sess.pcs[i] = "wait_lock"
    /\ sess.lock = 0
    /\ sess' = [sess EXCEPT !.pcs[i] = "locked", !.lock = i]
    /\ UNCHANGED <<model_cache, loads>>
    /\ LoadFrame

(* Under the lock the store is read again: another session wrote the value *)
(* in the meantime, and it is returned.                                    *)
Load_HitUnderLock(i) ==
    /\ sess.pcs[i] = "locked"
    /\ CacheHit(model_cache)
    /\ sess' = [sess EXCEPT !.pcs[i] = "has_model", !.handle[i] = loads,
                            !.lock = 0]
    /\ UNCHANGED <<model_cache, loads>>
    /\ LoadFrame

(* Lines 21-24: EncoderClassifier.from_hparams builds the model; the value *)
(* is written to the store and the lock released.                          *)
Load_Construct(i) ==
    /\ sess.pcs[i] = "locked"
    /\ ~CacheHit(model_cache)
    /\ loads' = loads + 1
    /\ model_cache' = "loaded"
    /\ sess' = [sess EXCEPT !.pcs[i] = "has_model", !.handle[i] = loads + 1,
                            !.lock = 0]
    /\ LoadFrame

NextLoad ==
    \E i \in Sessions :
        \/ Load_Call(i)
        \/ Load_Hit(i)
        \/ Load_Miss(i)
        \/ Load_AcquireLock(i)
        \/ Load_HitUnderLock(i)
        \/ Load_Construct(i)

SpecLoad == InitLoad /\ [][NextLoad]_vars

----------------------------------------------------------------------------
(* What the claims speak of *)

Notified(msg) == \E i \in 1 .. Len(ui) : ui[i] = msg

RunStarted == tmpdir # "none"

DownloadHeadlines ==
    {"Video Download Failed.", "An unexpected error occurred during download"}

(* The download tool wrote a file the later stages can work on *)
GoodDownload ==
    /\ proc.outcome = "exit0"
    /\ proc.wrote.exists
    /\ proc.wrote.readable
    /\ proc.wrote.hasAudio
    /\ proc.wrote.transcodes

(* The text holds the needle at some position, stated position by position *)
HasAt(text, needle, i) ==
    /\ i + Len(needle) - 1 <= Len(text)
    /\ \A k \in 1 .. Len(needle) : text[i + k - 1] = needle[k]

HasSignal(text) ==
    \E i \in 1 .. Len(text) : HasAt(text, S403, i) \/ HasAt(text, SForbidden, i)

MinOf(d, m) == IF d > m THEN m ELSE d

----------------------------------------------------------------------------
(* C1: a run whose download produces the video file, whose extraction can  *)
(* succeed (the file is readable, has an audio track and transcodes) and   *)
(* whose classifier does not raise goes through the download, extraction   *)
(* and classification notifications in that order and ends showing a       *)
(* result: no failure, no exception.                                       *)
C1_HappyPathEndsDone ==
    (pc = "returned" /\ GoodDownload)
        => /\ result.shown
           /\ error = NoError
           /\ raised = NoExc
           /\ Notified("Step 2: Extracting audio...")
           /\ Notified("Step 3: Analyzing accent...")

(* C2: every run that started ends with exactly one of a result and a      *)
(* failure: never both, never neither.                                     *)
C2_ExactlyOneOutcome ==
    (pc = "returned" /\ RunStarted)
        => \/ (result.shown /\ error = NoError)
           \/ (~result.shown /\ error # NoError)

(* C3: once the script has returned, the temporary directory and the files *)
(* in it are gone, whether the run failed with a rendered failure or an    *)
(* exception left main().                                                  *)
C3_WorkspaceRemoved ==
    pc = "returned"
        => /\ tmpdir # "exists"
           /\ ~video_file.exists
           /\ ~audio_file.exists

C3_Witness ==
    /\ pc = "returned"
    /\ tmpdir = "deleted"
    /\ raised.type = "NameError"

(* C4: once the downloader has reported a failure, the run only ends: the  *)
(* extraction stage is never entered (no second notification, no call, no  *)
(* exception from it), nothing is classified, and the failure stands.      *)
C4_DownloadFailureTerminates ==
    (error.headline \in DownloadHeadlines)
        => /\ pc \in {"after_download", "exit_workspace", "returned"}
           /\ video_path = "none"
           /\ ~Notified("Step 2: Extracting audio...")
           /\ raised = NoExc
           /\ clip = NoClip
           /\ extract_ok = "unset"
           /\ ~audio_file.exists
           /\ ~result.shown

C4_Witness ==
    /\ pc = "returned"
    /\ error.headline = "Video Download Failed."
    /\ tmpdir = "deleted"

(* C5: after a nonzero exit, the failure is DownloadForbidden, with the    *)
(* service-block hint, exactly when the standard error holds "403" or      *)
(* "Forbidden", and DownloadToolError otherwise; either way the standard   *)
(* error is attached unchanged.                                            *)
C5_ForbiddenIffStderrSignal ==
    (proc.outcome = "nonzero" /\ pc # "dl_except")
        => /\ Tag(error) = IF HasSignal(proc.stderr)
                           THEN "DownloadForbidden" ELSE "DownloadToolError"
           /\ (error.hint = "service block") = HasSignal(proc.stderr)
           /\ error.hasDetail
           /\ error.detail = proc.stderr

C5_Witness ==
    /\ pc = "returned"
    /\ proc.outcome = "nonzero"
    /\ proc.stderr = S403
    /\ Tag(error) = "DownloadForbidden"

(* C6, as claimed: the failure of a download that timed out carries a tag  *)
(* of its own, different from the tags of a tool error, of a missing       *)
(* output file and of any other unexpected exception.                      *)
C6_TimeoutHasOwnTag ==
    (proc.outcome = "timeout" /\ pc = "returned")
        => /\ Tag(error) # "DownloadToolError"
           /\ Tag(error) # "UnexpectedDownloadFailure"
           /\ tmpdir = "deleted"

(* C6, amended: a tool still running after 120 seconds times out; the      *)
(* failure is rendered by the handler of unexpected exceptions, so with    *)
(* the tag UnexpectedDownloadFailure, told from the other unexpected       *)
(* failures by its message only; it is not a DownloadToolError, no path is *)
(* returned, and the directory is gone when the script has returned.       *)
C6_TimeoutReportedAsUnexpected ==
    /\ (proc.outcome # "none" /\ proc.elapsed > DOWNLOAD_TIMEOUT_SECONDS)
          => proc.outcome = "timeout"
    /\ (proc.outcome = "timeout" /\ pc # "dl_except")
          => /\ Tag(error) = "UnexpectedDownloadFailure"
             /\ error.message = MsgTimeout
             /\ error.message \notin {MsgNoOutput, MsgNoTool}
             /\ video_path = "none"
             /\ (pc = "returned" => tmpdir = "deleted")

C6_Witness ==
    /\ pc = "returned"
    /\ proc.outcome = "timeout"
    /\ proc.elapsed > DOWNLOAD_TIMEOUT_SECONDS
    /\ tmpdir = "deleted"

(* C7, as claimed: when the tool exits 0 without the file, no path is      *)
(* returned and the failure carries a tag different from that of an        *)
(* unexpected exception.                                                   *)
C7_NoOutputHasOwnTag ==
    (proc.outcome = "exit0" /\ ~proc.wrote.exists /\ pc = "returned")
        => /\ video_path = "none"
           /\ Tag(error) # "UnexpectedDownloadFailure"

(* C7, amended: when the tool exits 0 without the file, no path is         *)
(* returned and the failure is rendered by the handler of unexpected       *)
(* exceptions, so with the tag UnexpectedDownloadFailure, told from the    *)
(* others by its message only.                                             *)
C7_NoOutputReportedAsUnexpected ==
    (proc.outcome = "exit0" /\ ~proc.wrote.exists
        /\ pc \notin {"dl_check", "dl_except"})
        => /\ video_path = "none"
           /\ Tag(error) = "UnexpectedDownloadFailure"
           /\ error.message = MsgNoOutput
           /\ error.message \notin {MsgTimeout, MsgNoTool}
           /\ ~Notified("Step 2: Extracting audio...")

C7_Witness ==
    /\ pc = "returned"
    /\ proc.outcome = "exit0"
    /\ ~proc.wrote.exists
    /\ error.message = MsgNoOutput

(* C8, as claimed: when the video's duration cannot be read, extraction    *)
(* does not fail: it goes on to write the audio, with no truncation.       *)
C8_ProbeFailureDoesNotFail ==
    (pc = "ex_done" /\ ~video_file.readable /\ video_file.hasAudio
        /\ video_file.transcodes)
        => /\ extract_ok = "True"
           /\ error = NoError
           /\ audio_file.exists

(* C8, amended: when the video's duration cannot be read, extraction       *)
(* fails: the exception is rendered as an extraction failure with its      *)
(* message, False is returned, no audio is selected or written, and the    *)
(* user is not told of a truncation.                                       *)
C8_ProbeFailureFailsExtraction ==
    (~video_file.readable /\ pc # "ex_open")
        => /\ pc \in {"ex_except", "ex_done"}
           /\ audio_to_write = NoAudioToWrite
           /\ ~audio_file.exists
           /\ ui = <<>>
           /\ pc = "ex_done"
                => /\ extract_ok = "False"
                   /\ Tag(error) = "ExtractionFailure"
                   /\ error.message = MsgCannotRead

C8_Witness ==
    /\ pc = "ex_done"
    /\ ~video_file.readable
    /\ video_file.hasAudio
    /\ video_file.transcodes
    /\ extract_ok = "False"

(* C9: an extraction that returned True wrote audio as long as the shorter *)
(* of the source and the maximum, and told the user of a truncation        *)
(* exactly when the source was longer than the maximum: a source of        *)
(* exactly the maximum is not truncated.                                   *)
C9_ProducedDurationIsMin ==
    (pc = "ex_done" /\ extract_ok = "True")
        => /\ audio_file.exists
           /\ audio_file.duration = MinOf(video_file.duration, max_duration_sec)
           /\ Notified(MsgTruncated) = (video_file.duration > max_duration_sec)

C9_Witness ==
    /\ pc = "ex_done"
    /\ extract_ok = "True"
    /\ video_file.duration = max_duration_sec
    /\ audio_file.duration = max_duration_sec

(* C10: a run whose download produced a readable video with no audio       *)
(* stream ends with the failure that says so; no exception leaves the run  *)
(* and no result is shown.                                                 *)
C10_NoAudioTrackReported ==
    (pc = "returned" /\ proc.outcome = "exit0" /\ proc.wrote.exists
        /\ proc.wrote.readable /\ ~proc.wrote.hasAudio)
        => /\ error.message = MsgNoAudioTrack
           /\ raised = NoExc
           /\ ~result.shown

(* C11: when the classifier call raises, the run ends with a rendered      *)
(* classification failure and no exception leaves main().                  *)
C11_ClassifierExceptionWrapped ==
    (pc = "returned" /\ cls.outcome = "raised")
        => /\ raised = NoExc
           /\ error # NoError
           /\ ~result.shown

(* C12: the model is built at most once in the process: however the       *)
(* sessions' first calls interleave and however often their scripts run    *)
(* again, every session that holds the model holds the one instance of the *)
(* first construction.                                                     *)
C12_ModelBuiltOnce ==
    /\ loads <= 1
    /\ \A i \in DOMAIN sess.handle :
          sess.pcs[i] = "has_model" => sess.handle[i] = 1

C12_Witness ==
    /\ loads = 1
    /\ \A i \in DOMAIN sess.handle : sess.pcs[i] = "has_model"
    /\ Len(sess.pcs) >= 2

StepMessages ==
    <<"Step 1: Attempting to download video...",
      "Step 2: Extracting audio...",
      "Step 3: Analyzing accent...">>

IsStepMessage(msg) == \E k \in 1 .. Len(StepMessages) : StepMessages[k] = msg

(* The progress notifications of this execution, in the order reported *)
StepsReported == SelectSeq(ui, IsStepMessage)

DownloadPcs == {"dl_subprocess", "dl_check", "dl_except"}
ClassifyPcs == {"cl_classify", "render"}

C14_NothingRetried ==
    /\ calls.download <= 1
    /\ calls.transcode <= 1
    /\ calls.classify <= 1
    /\ (error # NoError \/ raised # NoExc)
          => pc \in {"after_download", "exit_workspace", "returned"}

C14_Witness ==
    /\ pc = "returned"
    /\ calls.download = 1
    /\ error # NoError

(* C15: the progress notifications come in the order download, extraction, *)
(* classification, each at most once; a run that shows a result reported   *)
(* all three; after a download failure neither the second nor the third is *)
(* reported, and after the extraction stage failed the third is not.       *)
C15_NotificationsInOrder ==
    /\ \E n \in 0 .. Len(StepMessages) :
          StepsReported = SubSeq(StepMessages, 1, n)
    /\ result.shown => StepsReported = StepMessages
    /\ (error.headline \in DownloadHeadlines) => Len(StepsReported) <= 1
    /\ (error.headline = "Audio Extraction Failed" \/ raised.type = "NameError")
          => Len(StepsReported) <= 2
    /\ calls.download > 0 => Len(StepsReported) >= 1

C15_Witness ==
    /\ pc = "returned"
    /\ StepsReported = SubSeq(StepMessages, 1, 2)
    /\ raised.type = "NameError"

(* C16: while the download is running or being checked, while the          *)
(* extraction is about to be called, and while the classifier is called,   *)
(* the temporary directory exists, with the video file for the extraction  *)
(* and the audio file for the classifier; the directory is gone only once  *)
(* the script has returned.                                                *)
C16_WorkspaceOutlivesStages ==
    /\ pc \in DownloadPcs => tmpdir = "exists"
    /\ pc = "call_extract" => (tmpdir = "exists" /\ video_file.exists)
    /\ pc \in ClassifyPcs => (tmpdir = "exists" /\ audio_file.exists)
    /\ tmpdir = "deleted" => pc = "returned"

C16_Witness ==
    /\ pc = "dl_check"
    /\ tmpdir = "exists"
    /\ video_file.exists

(* C17: when download_video_with_yt_dlp has returned, no exception is      *)
(* pending or has left it, and it has returned either None, with a failure *)
(* rendered, or the path video.mp4, with the file on disk and no failure.  *)
C17_DownloadNeverRaises ==
    /\ raised.type \notin {"CalledProcessError", "TimeoutExpired",
                           "FileNotFoundError", "Exception"}
    /\ pc = "after_download"
          => /\ exc = NoExc
             /\ raised = NoExc
             /\ proc.outcome # "none"
             /\ video_path \in {"none", "video.mp4"}
             /\ video_path = "video.mp4"
                   => (video_file.exists /\ tmpdir = "exists"
                       /\ error = NoError)
             /\ video_path = "none" => error.headline \in DownloadHeadlines

C17_Witness ==
    /\ pc = "after_download"
    /\ proc.outcome = "not started"
    /\ video_path = "none"

(* C18: an execution whose form was not submitted, or was submitted with   *)
(* an empty URL, creates no directory, invokes nothing, reports nothing    *)
(* and renders neither a result nor a failure.                             *)
C18_NoRunWithoutSubmission ==
    (~submit_button \/ video_url = "")
        => /\ pc \in {"load_model", "form", "returned"}
           /\ tmpdir = "none"
           /\ calls = NoCalls
           /\ proc = NoProc
           /\ ui = <<>>
           /\ error = NoError
           /\ ~result.shown
           /\ raised = NoExc

C18_Witness ==
    /\ pc = "returned"
    /\ submit_button
    /\ video_url = ""
    /\ tmpdir = "none"

====
